---- MODULE Spec2Model ----
(***************************************************************************)
(* Model of src/string.rs of the llvm crate: the borrowed view llvm::Str,  *)
(* the owning wrapper llvm::String and the literal helper llvm_str!.       *)
(*                                                                         *)
(* Memory is a set of blocks (static literal storage, heap messages        *)
(* allocated by LLVM, and the stack slot of the temporary that the         *)
(* argument-less arm of llvm_str! takes the address of).  A pointer is a   *)
(* block and an offset.  A &Str IS the pointer (the type is a transmute of *)
(* *const i8), so a view carries no length and no copy of the bytes.       *)
(***************************************************************************)
EXTENDS Integers, Sequences, FiniteSets, TLC

VARIABLES
    mem,       \* block -> [bytes, st]: the bytes and whether the storage is live
    bind,      \* binding (local variable of type String) -> <<>> or <<String>>
    views,     \* view slot (local of type &Str) -> <<>> or <<[ref, from, owner]>>
    released,  \* the arguments LLVMDisposeMessage was called with, in order
    wrapped,   \* history: the pointers from_mut was called with
    moved,     \* history: the pointers whose wrapper was moved at least once, kept
               \* until the step after their release
    touched,   \* history: the pointers read through a wrapper or its views, kept
               \* until the step after their release
    last       \* the operation performed by the last step and its outcome

vars == << mem, bind, views, released, wrapped, moved, touched, last >>

----------------------------------------------------------------------------
(* Bounds *)

\* number of heap messages LLVM hands out during a run
MaxMsgs == 1

\* number of expansions of llvm_str!() during a run, each with its own temporary
MaxTemps == 2

\* the byte values used: NUL, 'A', and the two bytes of U+00E9 (0xC3 0xA9);
\* 0xC3 alone and 0xA9 alone are both invalid UTF-8
Bytes == {0, 65, 195, 169}

Bindings == {"a", "b"}
Slots    == {"v", "w"}

----------------------------------------------------------------------------
(* Byte strings *)

\* core::str::from_utf8 as CStr::to_str runs it: the well-formed byte
\* sequences of the Unicode standard, table 3-7
RECURSIVE Utf8Valid(_)
Utf8Valid(bs) ==
    IF bs = <<>> THEN TRUE
    ELSE LET b0 == bs[1]
             n  == Len(bs)
             Cont(i) == i <= n /\ bs[i] >= 128 /\ bs[i] <= 191
             Rest(k) == Utf8Valid(SubSeq(bs, k + 1, n))
         IN  IF b0 < 128 THEN Rest(1)
             ELSE IF b0 >= 194 /\ b0 <= 223 THEN Cont(2) /\ Rest(2)
             ELSE IF b0 = 224 THEN Cont(2) /\ bs[2] >= 160 /\ Cont(3) /\ Rest(3)
             ELSE IF b0 = 237 THEN Cont(2) /\ bs[2] <= 159 /\ Cont(3) /\ Rest(3)
             ELSE IF b0 >= 225 /\ b0 <= 239 THEN Cont(2) /\ Cont(3) /\ Rest(3)
             ELSE IF b0 = 240 THEN Cont(2) /\ bs[2] >= 144 /\ Cont(3) /\ Cont(4) /\ Rest(4)
             ELSE IF b0 = 244 THEN Cont(2) /\ bs[2] <= 143 /\ Cont(3) /\ Cont(4) /\ Rest(4)
             ELSE IF b0 >= 241 /\ b0 <= 243 THEN Cont(2) /\ Cont(3) /\ Cont(4) /\ Rest(4)
             ELSE FALSE

\* the literals given to llvm_str!: Rust string literals, valid UTF-8,
\* one of them with an embedded NUL
Literals == { <<>>, <<65>>, <<195, 169>>, <<65, 0, 65>> }

RECURSIVE SetToSeq(_)
SetToSeq(S) ==
    IF S = {} THEN <<>>
    ELSE LET x == CHOOSE y \in S : TRUE IN <<x>> \o SetToSeq(S \ {x})

\* the literals in a fixed order; the index of a literal names its static block
LitSeq == SetToSeq(Literals)

NLit == Cardinality(Literals)

----------------------------------------------------------------------------
(* Memory *)

StaticBlocks == 1 .. NLit
HeapBlocks   == (NLit + 1) .. (NLit + MaxMsgs)
TempBlocks   == (NLit + MaxMsgs + 1) .. (NLit + MaxMsgs + MaxTemps)
Blocks       == StaticBlocks \cup HeapBlocks \cup TempBlocks

Ptr(b, o) == [blk |-> b, off |-> o]

Live(m, p) == m[p.blk].st = "live"

\* what a heap message may hold: a terminated buffer, valid UTF-8 or not,
\* with or without bytes after the first NUL
Messages == { <<0, 65, 0>>, <<65, 0, 169, 0>>, <<65, 195, 169, 0>>,
              <<195, 65, 0>>, <<169, 0>> }

\* storage whose lifetime has ended: its contents are indeterminate
Freed == [bytes |-> <<>>, st |-> "dead"]

\* concat! with its arguments swapped: concat!("\0", T)
StaticImage_swapped(i) == [bytes |-> <<0>> \o LitSeq[i], st |-> "live"]

\* the program image: concat!(T, "\0") for every literal T is static data
StaticImage(i) == [bytes |-> LitSeq[i] \o <<0>>, st |-> "live"]

----------------------------------------------------------------------------
(* Outcomes of an operation *)

Ok(t)      == [tag |-> "ok", text |-> t, msg |-> ""]
Panic(why) == [tag |-> "panic", text |-> <<>>, msg |-> why]
Fault      == [tag |-> "fault", text |-> <<>>, msg |-> ""]

\* a read of storage whose lifetime has ended is undefined behaviour: the
\* build may produce any text at all (whatever bytes the allocator or the
\* stack left there, of any length and any value, up to the first zero byte
\* found), the panic, or a fault
Undefined ==
    [tag : {"ok"}, text : Seq(1 .. 255), msg : {""}]
        \cup { Panic("LLVM string contained invalid UTF-8 somehow."), Fault }

\* what the state records of such a read: that its outcome is any member of
\* Undefined, none in particular
Indeterminate == [tag |-> "undefined", text |-> <<>>, msg |-> ""]

\* the outcomes of the build that a recorded outcome stands for
Allows(rec, o) == IF rec = Indeterminate THEN o \in Undefined ELSE o = rec

----------------------------------------------------------------------------
(* std::ffi::CStr and std::str, as string.rs uses them *)

\* CStr::from_ptr(p).to_bytes(): scan from p up to, not including, the first NUL
RECURSIVE ScanFrom(_, _)
ScanFrom(bytes, i) ==
    IF bytes[i] = 0 THEN <<>> ELSE <<bytes[i]>> \o ScanFrom(bytes, i + 1)

\* CStr::to_bytes_with_nul in place of to_bytes: the terminator is kept
CStr_to_bytes_with_nul(m, p) == Append(ScanFrom(m[p.blk].bytes, p.off + 1), 0)

CStr_to_bytes(m, p) == ScanFrom(m[p.blk].bytes, p.off + 1)

\* std::str::from_utf8_unchecked: the bytes reinterpreted as text, unchecked
from_utf8_unchecked(bs) == bs

\* CStr::to_str: Ok(text) when the bytes are valid UTF-8, Err otherwise
CStr_to_str(m, p) ==
    LET bs == CStr_to_bytes(m, p)
    IN  IF Utf8Valid(bs) THEN [ok |-> TRUE, text |-> bs] ELSE [ok |-> FALSE, text |-> <<>>]

\* Result::expect
expect(r, why) == IF r.ok THEN Ok(r.text) ELSE Panic(why)

----------------------------------------------------------------------------
(* llvm::Str *)

\* Str::from_ptr: transmute, the reference is the pointer
from_ptr(p) == p

\* Str::as_ptr: transmute back
as_ptr(self) == self

\* as_str over to_bytes_with_nul: rendering would disagree with decoding
as_str_with_nul(m, self) == from_utf8_unchecked(CStr_to_bytes_with_nul(m, as_ptr(self)))

\* Str::as_str
as_str(m, self) == from_utf8_unchecked(CStr_to_bytes(m, as_ptr(self)))

\* write!(f, "{}", text): the formatter receives the text
write(text) == Ok(text)

\* <Str as Debug>::fmt
Str_Debug_fmt(m, self) == write(as_str(m, self))

\* <Str as Display>::fmt
Str_Display_fmt(m, self) == write(as_str(m, self))

\* <Str as AsRef<Str>>::as_ref
Str_as_ref_Str(self) == self

\* <Str as AsRef<str>>::as_ref
Str_as_ref_str(m, self) ==
    expect(CStr_to_str(m, self), "LLVM string contained invalid UTF-8 somehow.")

\* <Str as AsRef<OsStr>>::as_ref: the str viewed as an OsStr, same bytes
Str_as_ref_OsStr(m, self) == Str_as_ref_str(m, self)

----------------------------------------------------------------------------
(* llvm::String *)

\* String::from_mut
from_mut(p) == [ptr |-> p]

\* as_ref off by one byte: self.ptr.offset(1)
String_as_ref_offset(s) == from_ptr([blk |-> s.ptr.blk, off |-> s.ptr.off + 1])

\* <String as AsRef<Str>>::as_ref
String_as_ref(s) == from_ptr(s.ptr)

\* <String as Deref>::deref
String_deref(s) == from_ptr(s.ptr)

\* <String as Display>::fmt
String_Display_fmt(m, s) == Str_Display_fmt(m, String_as_ref(s))

\* <String as Debug>::fmt
String_Debug_fmt(m, s) == Str_Debug_fmt(m, String_as_ref(s))

\* LLVMDisposeMessage: the external release function frees the message
LLVMDisposeMessage(p) ==
    /\ mem' = [mem EXCEPT ![p.blk] = Freed]
    /\ released' = Append(released, p)

\* <String as Drop>::drop
String_drop(s) == LLVMDisposeMessage(s.ptr)

\* llvm_str!(T): a view over the static storage of concat!(T, "\0")
llvm_str(i) == from_ptr(Ptr(i, 0))

\* llvm_str!(): a view over the temporary `0i8` that `&mut 0i8` creates;
\* t is the storage of the temporary of this expansion
llvm_str_empty(t) == from_ptr(Ptr(t, 0))

----------------------------------------------------------------------------
(* Program state *)

NullPtr == Ptr(0, 0)
NoOut   == [tag |-> "none", text |-> <<>>, msg |-> ""]

Range(f) == { f[x] : x \in DOMAIN f }

\* a &Str held in a local: the reference, how it was obtained, and the
\* binding whose borrow bounds its lifetime ("none": the lifetime is the
\* caller's choice, as from_ptr<'a> and &'static leave it)
View(r, how, b) == [ref |-> r, from |-> how, owner |-> b]

\* deref with the lifetime unbound from self, as from_ptr<'a> leaves it
Deref_view_unbounded(b, s) == View(String_deref(s), "deref", "none")

\* deref<'a>(&'a self) -> &'a Str: the view borrows the binding
Deref_view(b, s) == View(String_deref(s), "deref", b)

\* as_ref(&self) -> &Str: the elided lifetime is that of the borrow of self
AsRef_view(b, s) == View(String_as_ref(s), "as_ref", b)

Borrowed(b) == \E v \in Slots : views[v] # <<>> /\ views[v][1].owner = b

\* the history of reads of a buffer is dropped once its release is past
Forget == touched' = touched \ Range(released)
ForgetMoved == moved' = moved \ Range(released)

Step(op, self, how, out, ret) ==
    [op |-> op, self |-> self, from |-> how, out |-> out, ret |-> ret]

Did(op, self, how, ret) == last' = Step(op, self, how, NoOut, ret)

Init ==
    /\ mem = [b \in Blocks |->
                IF b \in StaticBlocks THEN StaticImage(b)
                ELSE [bytes |-> <<>>, st |-> "unalloc"]]
    /\ bind = [b \in Bindings |-> <<>>]
    /\ views = [v \in Slots |-> <<>>]
    /\ released = <<>>
    /\ wrapped = {}
    /\ moved = {}
    /\ touched = {}
    /\ last = Step("start", NullPtr, "", NoOut, NullPtr)

----------------------------------------------------------------------------
(* Owning wrapper: construction, move, borrow, scope exit *)

\* LLVM returns a fresh message and the crate wraps it: String::from_mut(p)
FromMut(b, h, bytes) ==
    /\ bind[b] = <<>>
    /\ mem[h].st = "unalloc"
    /\ \A g \in HeapBlocks : g < h => mem[g].st # "unalloc"
    /\ mem' = [mem EXCEPT ![h] = [bytes |-> bytes, st |-> "live"]]
    /\ bind' = [bind EXCEPT ![b] = << from_mut(Ptr(h, 0)) >>]
    /\ wrapped' = wrapped \cup { Ptr(h, 0) }
    /\ Did("from_mut", Ptr(h, 0), "String", NullPtr)
    /\ Forget
    /\ ForgetMoved
    /\ UNCHANGED << views, released >>

\* String made Copy: let b2 = b1 leaves b1 initialized
Move_copy(b1, b2) ==
    /\ b1 # b2
    /\ bind[b1] # <<>>
    /\ bind[b2] = <<>>
    /\ ~Borrowed(b1)
    /\ bind' = [bind EXCEPT ![b2] = bind[b1]]
    /\ moved' = (moved \cup { bind[b1][1].ptr }) \ Range(released)
    /\ Did("move", bind[b1][1].ptr, "String", NullPtr)
    /\ Forget
    /\ UNCHANGED << mem, views, released, wrapped >>

\* let b2 = b1: the value moves, b1 is left uninitialized and is not dropped
Move(b1, b2) ==
    /\ b1 # b2
    /\ bind[b1] # <<>>
    /\ bind[b2] = <<>>
    /\ ~Borrowed(b1)
    /\ bind' = [bind EXCEPT ![b2] = bind[b1], ![b1] = <<>>]
    /\ moved' = (moved \cup { bind[b1][1].ptr }) \ Range(released)
    /\ Did("move", bind[b1][1].ptr, "String", NullPtr)
    /\ Forget
    /\ UNCHANGED << mem, views, released, wrapped >>

\* an initialized binding goes out of scope: Drop::drop runs on its value
ScopeExit(b) ==
    /\ bind[b] # <<>>
    /\ ~Borrowed(b)
    /\ String_drop(bind[b][1])
    /\ bind' = [bind EXCEPT ![b] = <<>>]
    /\ Did("drop", bind[b][1].ptr, "String", NullPtr)
    /\ Forget
    /\ ForgetMoved
    /\ UNCHANGED << views, wrapped >>

\* let v: &Str = &*b
Deref(b, v) ==
    /\ bind[b] # <<>>
    /\ views[v] = <<>>
    /\ views' = [views EXCEPT ![v] = << Deref_view(b, bind[b][1]) >>]
    /\ Did("deref", bind[b][1].ptr, "String", Deref_view(b, bind[b][1]).ref)
    /\ Forget
    /\ ForgetMoved
    /\ UNCHANGED << mem, bind, released, wrapped >>

\* let v: &Str = b.as_ref()
AsRefStr(b, v) ==
    /\ bind[b] # <<>>
    /\ views[v] = <<>>
    /\ views' = [views EXCEPT ![v] = << AsRef_view(b, bind[b][1]) >>]
    /\ Did("as_ref", bind[b][1].ptr, "String", AsRef_view(b, bind[b][1]).ref)
    /\ Forget
    /\ ForgetMoved
    /\ UNCHANGED << mem, bind, released, wrapped >>

----------------------------------------------------------------------------
(* Borrowed views: construction, copy, end of scope *)

\* unsafe { Str::from_ptr(p) } over a message LLVM handed out
FromPtr(v, h) ==
    /\ views[v] = <<>>
    /\ mem[h].st = "live"
    /\ views' = [views EXCEPT ![v] = << View(from_ptr(Ptr(h, 0)), "from_ptr", "none") >>]
    /\ Did("from_ptr", Ptr(h, 0), "from_ptr", from_ptr(Ptr(h, 0)))
    /\ Forget
    /\ ForgetMoved
    /\ UNCHANGED << mem, bind, released, wrapped >>

\* let v = llvm_str!(T)
LlvmStr(v, i) ==
    /\ views[v] = <<>>
    /\ views' = [views EXCEPT ![v] = << View(llvm_str(i), "llvm_str", "none") >>]
    /\ Did("llvm_str", llvm_str(i), "llvm_str", llvm_str(i))
    /\ Forget
    /\ ForgetMoved
    /\ UNCHANGED << mem, bind, released, wrapped >>

\* let v = llvm_str!(): a temporary of its own is created for this
\* expansion and its address taken
LlvmStrEmpty(v, t) ==
    /\ views[v] = <<>>
    /\ mem[t].st = "unalloc"
    /\ \A u \in TempBlocks : u < t => mem[u].st # "unalloc"
    /\ mem' = [mem EXCEPT ![t] = [bytes |-> <<0>>, st |-> "live"]]
    /\ views' = [views EXCEPT ![v] = << View(llvm_str_empty(t), "llvm_str_empty", "none") >>]
    /\ Did("llvm_str_empty", llvm_str_empty(t), "llvm_str_empty", llvm_str_empty(t))
    /\ Forget
    /\ ForgetMoved
    /\ UNCHANGED << bind, released, wrapped >>

\* the statement that evaluated an llvm_str!() ends: its temporary is
\* dropped, and its storage is never that temporary again
EndStatement(t) ==
    /\ mem[t].st = "live"
    /\ mem' = [mem EXCEPT ![t] = Freed]
    /\ Did("end_statement", NullPtr, "", NullPtr)
    /\ Forget
    /\ ForgetMoved
    /\ UNCHANGED << bind, views, released, wrapped >>

\* &Str is Copy: let w = v, also through <Str as AsRef<Str>>::as_ref
CopyView(v, w) ==
    /\ v # w
    /\ views[v] # <<>>
    /\ views[w] = <<>>
    /\ views' = [views EXCEPT ![w] =
                    << [views[v][1] EXCEPT !.ref = Str_as_ref_Str(views[v][1].ref)] >>]
    /\ Did("copy", views[v][1].ref, views[v][1].from, Str_as_ref_Str(views[v][1].ref))
    /\ Forget
    /\ ForgetMoved
    /\ UNCHANGED << mem, bind, released, wrapped >>

\* the local holding the view goes out of scope: nothing runs
EndView(v) ==
    /\ views[v] # <<>>
    /\ views' = [views EXCEPT ![v] = <<>>]
    /\ Did("end_view", views[v][1].ref, views[v][1].from, NullPtr)
    /\ Forget
    /\ ForgetMoved
    /\ UNCHANGED << mem, bind, released, wrapped >>

----------------------------------------------------------------------------
(* Read operations.  The slots may be locals of different threads (&Str is *)
(* Send and Sync): every interleaving of the reads is a behaviour.         *)

\* a read that dereferences: defined on live storage, undefined otherwise
\* (then every member of Undefined is a possible outcome)
Observed(self, out) == IF Live(mem, self) THEN out ELSE Indeterminate

Reads(op, self, how, out) ==
    /\ last' = Step(op, self, how, out, NullPtr)
    /\ touched' = (IF how \in {"String", "deref", "as_ref"}
                   THEN touched \cup { self } ELSE touched) \ Range(released)
    /\ ForgetMoved
    /\ UNCHANGED << mem, bind, views, released, wrapped >>

\* v.as_ptr()
AsPtr(v) ==
    /\ views[v] # <<>>
    /\ Did("as_ptr", views[v][1].ref, views[v][1].from, as_ptr(views[v][1].ref))
    /\ Forget
    /\ ForgetMoved
    /\ UNCHANGED << mem, bind, views, released, wrapped >>

\* let t: &str = v.as_ref()
DecodeStr(v) ==
    /\ views[v] # <<>>
    /\ LET r == views[v][1].ref
       IN  Reads("as_ref_str", r, views[v][1].from, Observed(r, Str_as_ref_str(mem, r)))

\* let t: &OsStr = v.as_ref()
DecodeOsStr(v) ==
    /\ views[v] # <<>>
    /\ LET r == views[v][1].ref
       IN  Reads("as_ref_OsStr", r, views[v][1].from, Observed(r, Str_as_ref_OsStr(mem, r)))

\* format!("{}", v)
DisplayStr(v) ==
    /\ views[v] # <<>>
    /\ LET r == views[v][1].ref
       IN  Reads("Display", r, views[v][1].from, Observed(r, Str_Display_fmt(mem, r)))

\* format!("{:?}", v)
DebugStr(v) ==
    /\ views[v] # <<>>
    /\ LET r == views[v][1].ref
       IN  Reads("Debug", r, views[v][1].from, Observed(r, Str_Debug_fmt(mem, r)))

\* b.as_ptr(): auto-deref of the wrapper, then Str::as_ptr
StringAsPtr(b) ==
    /\ bind[b] # <<>>
    /\ Did("as_ptr", bind[b][1].ptr, "String", as_ptr(String_deref(bind[b][1])))
    /\ Forget
    /\ ForgetMoved
    /\ UNCHANGED << mem, bind, views, released, wrapped >>

\* let t: &str = (*b).as_ref(): auto-deref of the wrapper, then AsRef<str>
StringDecode(b) ==
    /\ bind[b] # <<>>
    /\ LET s == bind[b][1]
       IN  Reads("as_ref_str", s.ptr, "String",
                 Observed(s.ptr, Str_as_ref_str(mem, String_deref(s))))

\* format!("{}", b)
StringDisplay(b) ==
    /\ bind[b] # <<>>
    /\ LET s == bind[b][1]
       IN  Reads("Display", s.ptr, "String", Observed(s.ptr, String_Display_fmt(mem, s)))

\* format!("{:?}", b)
StringDebug(b) ==
    /\ bind[b] # <<>>
    /\ LET s == bind[b][1]
       IN  Reads("Debug", s.ptr, "String", Observed(s.ptr, String_Debug_fmt(mem, s)))

----------------------------------------------------------------------------

\* the owning wrapper and the views over heap messages
WrapperOps ==
    \/ \E b \in Bindings, h \in HeapBlocks, bytes \in Messages : FromMut(b, h, bytes)
    \/ \E b1, b2 \in Bindings : Move(b1, b2)
    \/ \E b \in Bindings : ScopeExit(b)
    \/ \E b \in Bindings, v \in Slots : Deref(b, v)
    \/ \E b \in Bindings, v \in Slots : AsRefStr(b, v)
    \/ \E v \in Slots, h \in HeapBlocks : FromPtr(v, h)
    \/ \E b \in Bindings : StringAsPtr(b)
    \/ \E b \in Bindings : StringDecode(b)
    \/ \E b \in Bindings : StringDisplay(b)
    \/ \E b \in Bindings : StringDebug(b)

\* the literal helper
LiteralOps ==
    \/ \E v \in Slots, i \in StaticBlocks : LlvmStr(v, i)
    \/ \E v \in Slots, t \in TempBlocks : LlvmStrEmpty(v, t)
    \/ \E t \in TempBlocks : EndStatement(t)

\* what any holder of a &Str can do with it
ViewOps ==
    \/ \E v, w \in Slots : CopyView(v, w)
    \/ \E v \in Slots : EndView(v)
    \/ \E v \in Slots : AsPtr(v)
    \/ \E v \in Slots : DecodeStr(v)
    \/ \E v \in Slots : DecodeOsStr(v)
    \/ \E v \in Slots : DisplayStr(v)
    \/ \E v \in Slots : DebugStr(v)

Next == WrapperOps \/ LiteralOps \/ ViewOps

\* the whole module
Spec == Init /\ [][Next]_vars

\* a program that uses wrappers and views but not the literal helper
NextOwn == WrapperOps \/ ViewOps
SpecOwn == Init /\ [][NextOwn]_vars

\* a program that uses the literal helper and views but no heap message
NextLit == LiteralOps \/ ViewOps
SpecLit == Init /\ [][NextLit]_vars

----------------------------------------------------------------------------
(* Vocabulary of the properties *)

IsDecode(l) == l.op \in {"as_ref_str", "as_ref_OsStr"}
IsRender(l) == l.op \in {"Display", "Debug"}
IsText(l)   == IsDecode(l) \/ IsRender(l)
IsRead(l)   == IsText(l) \/ l.op = "as_ptr"

ViaWrapper(l) == l.from \in {"String", "deref", "as_ref"}

Count(seq, x) == Cardinality({ i \in DOMAIN seq : seq[i] = x })

Holds(p) == \E b \in Bindings : bind[b] # <<>> /\ bind[b][1].ptr = p

\* the bytes of the storage at p, from p to the end of its block
BufferAt(m, p) == SubSeq(m[p.blk].bytes, p.off + 1, Len(m[p.blk].bytes))

\* the bytes of a buffer before its first zero byte
FirstNul(bs) == CHOOSE i \in 1 .. Len(bs) : bs[i] = 0 /\ \A j \in 1 .. (i - 1) : bs[j] # 0
BeforeNul(bs) == SubSeq(bs, 1, FirstNul(bs) - 1)

\* the static block of the empty literal ""
EmptyLit == CHOOSE i \in StaticBlocks : LitSeq[i] = <<>>

----------------------------------------------------------------------------
(* C1 *)

\* C1: every pointer given to from_mut is released exactly once when its
\* wrapper has gone out of scope, not at all while a binding still holds the
\* wrapper, and LLVMDisposeMessage is called with nothing but such pointers,
\* however often the wrapper was moved.
C1_ReleaseExactlyOnce ==
    /\ \A i \in DOMAIN released : released[i] \in wrapped
    /\ \A p \in wrapped : Count(released, p) = IF Holds(p) THEN 0 ELSE 1

\* a wrapper that was moved has gone out of scope and its pointer was released
C1_Witness ==
    /\ last.op = "drop"
    /\ last.self \in moved
    /\ released = << last.self >>

----------------------------------------------------------------------------
(* C2 *)

\* C2: a text operation on a view over live storage whose bytes before the
\* first zero byte are valid UTF-8 yields exactly those bytes: nothing at or
\* after the first zero byte is in the result.
C2_DecodeUpToTerminator ==
    (IsText(last) /\ Live(mem, last.self) /\ Utf8Valid(BeforeNul(BufferAt(mem, last.self))))
        => last.out = Ok(BeforeNul(BufferAt(mem, last.self)))

\* a from_ptr view over "A\0\xA9\0" was decoded to "A"
C2_Witness ==
    /\ last.op = "as_ref_str"
    /\ last.from = "from_ptr"
    /\ Live(mem, last.self)
    /\ BufferAt(mem, last.self) = <<65, 0, 169, 0>>
    /\ last.out = Ok(<<65>>)

----------------------------------------------------------------------------
(* C3 *)

\* C3: every text operation of a view over live storage whose bytes before
\* the terminator are not valid UTF-8 panics with a message and returns no
\* text.
C3_InvalidUtf8AlwaysPanics ==
    (IsText(last) /\ Live(mem, last.self) /\ ~Utf8Valid(BeforeNul(BufferAt(mem, last.self))))
        => (last.out.tag = "panic" /\ last.out.msg # "")

----------------------------------------------------------------------------
(* C4 *)

\* C4: rendering a view (Display, Debug) over live storage has the outcome
\* that decoding it with AsRef<str> has: the same text, or the same panic.
C4_RenderSameAsDecode ==
    (IsRender(last) /\ Live(mem, last.self))
        => last.out = Str_as_ref_str(mem, last.self)

----------------------------------------------------------------------------
(* C5 *)

\* C5: for a literal T without a zero byte, the view llvm_str!(T) points at
\* storage holding T followed by one zero byte, and every text operation on
\* it yields T.
C5_LiteralRoundTrip ==
    /\ \A v \in Slots :
        (views[v] # <<>> /\ views[v][1].from = "llvm_str"
            /\ 0 \notin Range(LitSeq[views[v][1].ref.blk]))
            => BufferAt(mem, views[v][1].ref) = LitSeq[views[v][1].ref.blk] \o <<0>>
    /\ (IsText(last) /\ last.from = "llvm_str" /\ 0 \notin Range(LitSeq[last.self.blk]))
            => last.out = Ok(LitSeq[last.self.blk])

\* llvm_str!("\u{e9}") was decoded to the two bytes of the literal
C5_Witness ==
    /\ last.op = "as_ref_str"
    /\ last.from = "llvm_str"
    /\ LitSeq[last.self.blk] = <<195, 169>>
    /\ last.out = Ok(<<195, 169>>)

----------------------------------------------------------------------------
(* C6 *)

\* C6: every text operation on a view made by llvm_str!() yields what it
\* yields on a view made by llvm_str!(""): the scan from its pointer finds
\* the terminator at the first byte and the text is empty, in every outcome
\* the read can have (an indeterminate outcome allows other texts, the
\* panic and a fault).
C6_EmptyArmSameAsEmptyLiteral ==
    (IsText(last) /\ last.from = "llvm_str_empty")
        => /\ last.out = Str_as_ref_str(mem, llvm_str(EmptyLit))
           /\ last.out = Ok(<<>>)
           /\ ~Allows(last.out, Ok(<<65>>))
           /\ ~Allows(last.out, Fault)

----------------------------------------------------------------------------
(* C7 *)

\* C7: the storage of every view made by llvm_str!, by either arm, is live
\* and holds the literal and its terminator for as long as the view exists,
\* and is never given to LLVMDisposeMessage.
C7_LiteralStorageIsStatic ==
    \A v \in Slots :
        (views[v] # <<>> /\ views[v][1].from \in {"llvm_str", "llvm_str_empty"})
            => /\ Live(mem, views[v][1].ref)
               /\ BufferAt(mem, views[v][1].ref) =
                    (IF views[v][1].from = "llvm_str"
                     THEN LitSeq[views[v][1].ref.blk] ELSE <<>>) \o <<0>>
               /\ views[v][1].ref \notin Range(released)

----------------------------------------------------------------------------
(* C8 *)

\* what C8 says of a state: a view borrowed from a wrapper is the view
\* from_ptr makes of the wrapper's pointer, and reading through the wrapper
\* has the outcome of reading that direct view
C8_SameView ==
    /\ \A v \in Slots :
        (views[v] # <<>> /\ views[v][1].owner \in Bindings)
            => /\ bind[views[v][1].owner] # <<>>
               /\ views[v][1].ref = from_ptr(bind[views[v][1].owner][1].ptr)
               /\ as_ptr(views[v][1].ref) = bind[views[v][1].owner][1].ptr
    /\ (last.op \in {"deref", "as_ref"}) => last.ret = from_ptr(last.self)
    /\ (last.op = "as_ptr" /\ last.from = "String") => last.ret = last.self
    /\ (last.from = "String" /\ Live(mem, last.self))
            => /\ last.op = "as_ref_str" => last.out = Str_as_ref_str(mem, from_ptr(last.self))
               /\ last.op = "Display" => last.out = Str_Display_fmt(mem, from_ptr(last.self))
               /\ last.op = "Debug" => last.out = Str_Debug_fmt(mem, from_ptr(last.self))

\* what C8 says of a step: obtaining the view changes no byte and releases
\* nothing
C8_BorrowIsFree ==
    (last'.op \in {"deref", "as_ref"}) => (mem' = mem /\ released' = released)

\* C8: the view obtained from a wrapper holding p (deref, as_ref) is the view
\* Str::from_ptr(p): as_ptr gives p, decoding and rendering through the
\* wrapper give what they give on the direct view, and obtaining the view
\* copies no byte and does not call the release function.
C8_ViewOfWrapperIsDirectView == []C8_SameView /\ [][C8_BorrowIsFree]_vars

\* a wrapper was rendered while a view borrowed from it and a from_ptr view
\* of the same pointer both exist
C8_Witness ==
    /\ last.op = "Display"
    /\ last.from = "String"
    /\ last.out.tag = "ok"
    /\ last.out.text # <<>>
    /\ \E v, w \in Slots :
        /\ views[v] # <<>> /\ views[v][1].from = "deref"
        /\ views[w] # <<>> /\ views[w][1].from = "from_ptr"
        /\ views[v][1].ref = views[w][1].ref
        /\ views[v][1].ref = last.self

----------------------------------------------------------------------------
(* C9 *)

\* C9: every read made through a wrapper, or through a view borrowed from it
\* by deref or as_ref, happens before the release of that wrapper's buffer:
\* no such view exists, and no such read is made, once the buffer has been
\* released.
C9_NoReadAfterRelease ==
    /\ (IsRead(last) /\ ViaWrapper(last))
            => (Live(mem, last.self) /\ last.self \notin Range(released))
    /\ \A v \in Slots :
        (views[v] # <<>> /\ views[v][1].from \in {"deref", "as_ref"})
            => (Live(mem, views[v][1].ref) /\ views[v][1].ref \notin Range(released))

\* a wrapper that was read through has been destroyed
C9_Witness ==
    /\ last.op = "drop"
    /\ last.self \in touched
    /\ last.self \in Range(released)
    /\ ~Live(mem, last.self)

----------------------------------------------------------------------------
(* C10 *)

\* what C10 says of a step: a read changes neither the storage, nor any
\* pointer held, nor the calls of the release function, and two successive
\* reads of text at one pointer of live storage agree
C10_ReadStep ==
    /\ IsRead(last') => UNCHANGED << mem, bind, views, released >>
    /\ (IsText(last) /\ IsText(last') /\ last'.self = last.self /\ Live(mem, last.self))
            => /\ (last.op = last'.op) => (last'.out = last.out)
               /\ (last.out.tag = "ok" /\ last'.out.tag = "ok")
                    => (last'.out.text = last.out.text)

\* C10: in every interleaving of as_ptr, decode and render operations on
\* views, a read leaves the buffer, the pointers and the calls of the release
\* function unchanged, and successive decodes of the same pointer return the
\* same text, provided the buffer is live.
C10_ReadsDoNotInterfere == [][C10_ReadStep]_vars

\* two distinct views of the same pointer exist and one of them was decoded
C10_Witness ==
    /\ last.op = "as_ref_str"
    /\ last.out.tag = "ok"
    /\ views["v"] # <<>> /\ views["w"] # <<>>
    /\ views["v"][1].from = "from_ptr" /\ views["w"][1].from = "from_ptr"
    /\ views["v"][1].ref = last.self
    /\ views["w"][1].ref = last.self

====
